---- MODULE Spec2Model ----
(***************************************************************************)
(* A model of src/src/lib.rs: ThreadSafeMutPtr<T>, a raw pointer that is   *)
(* written through from several threads, and SieveVecBool, a Vec<bool>     *)
(* whose slots are only ever set to false.                                 *)
(*                                                                         *)
(* A slot index i of the Rust Vec is position i + 1 of the TLA+ sequence.  *)
(* usize is an unsigned integer of USIZE_BITS bits; `index += step_size`   *)
(* on an overflowing sum panics in a build with overflow checks and wraps  *)
(* modulo 2^USIZE_BITS in a build without them, so the model takes either. *)
(* Workers of a parallel call interleave at the granularity of one loop    *)
(* iteration: the only shared access of an iteration is its single store   *)
(* of `false`, every other variable of the iteration is thread-local.      *)
(* Two unsynchronised stores of the same byte value to one slot leave that *)
(* value in the slot on every build, so a store is modelled as one step.   *)
(* A store through get_unchecked_mut beyond the array's length is          *)
(* undefined behaviour: it lands outside the array or it faults.           *)
(* An address is a number: the array's buffer starts at BufBase, the null  *)
(* pointer is NullAddr.                                                    *)
(***************************************************************************)
EXTENDS Integers, Sequences, FiniteSets, TLC

VARIABLES
    vec,          \* SieveVecBool.vec
    vec0,         \* the Vec<bool> the array was constructed from
    threads,      \* pool threads that serve the call's fan-out (0: the call fans nothing out)
    pc,           \* "idle" | "running" | "returned" | "panicked" | "crashed" | "consumed"
    op,           \* the call in progress, or the last call made
    pre,          \* vec at the entry of that call
    index,        \* set_step_range_to_false: the local `index`
    cursor,       \* set_step_range_to_false_par: items the iterator has yielded
    inflight,     \* set_step_range_to_false_par: indices handed to a worker, not yet written
                  \* (a set: the items of step_by are distinct, see C16_NoContention)
    tasks,        \* set_multiples_of_slice_to_false_par: one task per slice item
    written,      \* indices stored to during the call
    twice,        \* indices stored to more than once during the call
    marked,       \* slots stored to since construction
    again,        \* the call repeats the call before it (same function, same arguments)
    out,          \* the Vec<bool> into_inner returned
    hnd,          \* ThreadSafeMutPtr<bool> values a caller holds, by name
    hop,          \* the last call made on a ThreadSafeMutPtr
    got           \* what into_mut_ref returned

\* The variables of a ThreadSafeMutPtr caller.
hvars == <<hnd, hop, got>>

vars == <<vec, vec0, threads, pc, op, pre, index, cursor, inflight, tasks,
          written, twice, marked, again, out, hnd, hop, got>>

-----------------------------------------------------------------------------
(* Bounds of the model *)

USIZE_BITS == 6
MaxLen == 3
MaxThreads == 3
MaxSlice == 2
MaxStep == 2

UsizeMod == 2 ^ USIZE_BITS
UsizeMax == UsizeMod - 1

\* Arguments the calls are tried with: the small values and the largest of usize.
StartVals == 0 .. MaxLen
StopVals == (0 .. MaxLen) \cup {UsizeMax}
StepVals == (0 .. MaxStep) \cup {UsizeMax - 1, UsizeMax}
NVals == (0 .. (MaxLen + 1)) \cup {UsizeMax}

\* Values of a slice handed to set_multiples_of_slice_to_false_par.
SliceVals == 0 .. MaxLen

SeqsUpTo(S, n) == UNION {[1 .. k -> S] : k \in 0 .. n}

\* The slices the batch call is tried with: ascending, as a sieve passes its
\* primes (the tasks of the call start in any order whatever the slice's order).
Slices ==
    {s \in SeqsUpTo(SliceVals, MaxSlice) : \A k \in 1 .. (Len(s) - 1) : s[k] <= s[k + 1]}

-----------------------------------------------------------------------------
(* ThreadSafeMutPtr<bool>: an address. A bool takes one address; slot i of *)
(* the buffer a handle points into lies at address BufBase + i, and the    *)
(* null pointer is address NullAddr.                                       *)

NullAddr == 0

\* What as_mut_ptr of the buffer returns: never null, also for an empty Vec.
BufBase == 8

ThreadSafeMutPtr_new(ptr) == [ptr |-> ptr]

\* from_mut_ref(r): r is given by the address of its referent.
ThreadSafeMutPtr_from_mut_ref(r) == ThreadSafeMutPtr_new(r)

ThreadSafeMutPtr_into_inner(self) == self.ptr

\* Option<&mut T>: None, or Some reference, given by the address it refers to.
None == [some |-> FALSE, addr |-> NullAddr]

Some(addr) == [some |-> TRUE, addr |-> addr]

\* <*mut T>::as_mut: None for the null pointer, Some(&mut *p) otherwise.
as_mut(p) == IF p = NullAddr THEN None ELSE Some(p)

\* Mutant of ThreadSafeMutPtr_into_mut_ref: the pointer is not tested for null.
ThreadSafeMutPtr_into_mut_ref_untested(self) == Some(ThreadSafeMutPtr_into_inner(self))

ThreadSafeMutPtr_into_mut_ref(self) == as_mut(ThreadSafeMutPtr_into_inner(self))

\* Mutant of ThreadSafeMutPtr_add: the offset is one element too far.
ThreadSafeMutPtr_add_one_more(self, amount) == ThreadSafeMutPtr_new(self.ptr + amount + 1)

ThreadSafeMutPtr_add(self, amount) == ThreadSafeMutPtr_new(self.ptr + amount)

\* Mutant of ThreadSafeMutPtr_write: the value is stored from the address to the
\* end of the buffer.
ThreadSafeMutPtr_write_to_end(mem, self, new_value) ==
    [k \in DOMAIN mem |-> IF k >= (self.ptr - BufBase) + 1 THEN new_value ELSE mem[k]]

\* write(new_value) on a handle into the buffer mem.
ThreadSafeMutPtr_write(mem, self, new_value) ==
    [mem EXCEPT ![(self.ptr - BufBase) + 1] = new_value]

\* The value a reference into the buffer mem refers to.
Deref(mem, addr) == mem[(addr - BufBase) + 1]

\* self.vec.as_mut_ptr(): the address of slot 0.
ptr_to_start_of_vec == ThreadSafeMutPtr_new(BufBase)

-----------------------------------------------------------------------------
(* SieveVecBool: the pure parts *)

\* Mutants of set_false_unchecked: it stores true; it flips the slot; it pushes a slot.
set_false_unchecked_stores_true(v, i) == [v EXCEPT ![i + 1] = TRUE]

set_false_unchecked_flips(v, i) == [v EXCEPT ![i + 1] = ~v[i + 1]]

set_false_unchecked_pushes(v, i) == Append(v, FALSE)

set_false_unchecked(v, i) == [v EXCEPT ![i + 1] = FALSE]

\* The closure of set_step_range_to_false_par: ptr.add(index), then write(false).
par_closure(v, i) ==
    ThreadSafeMutPtr_write(v, ThreadSafeMutPtr_add(ptr_to_start_of_vec, i), FALSE)

\* `index += step_size` on usize: what the build can do with the sum.
AddOutcomes(a, b) == IF a + b > UsizeMax THEN {"wrap", "panic"} ELSE {"ok"}

\* Mutant of AddUsize: a step of 0 advances by 1.
AddUsize_at_least_1(a, b) == (a + (IF b = 0 THEN 1 ELSE b)) % UsizeMod

AddUsize(a, b) == (a + b) % UsizeMod

\* get_unchecked_mut(index) and the store through it. In bounds it is the
\* store. Out of bounds it is undefined behaviour: the byte lands on memory
\* that is not a slot of the array, or the access faults and ends the process.
StoreOutcomes(v, i) == IF i < Len(v) THEN {"slot"} ELSE {"stray", "fault"}

\* (start..stop).step_by(step_size), step_size >= 1: how many items it yields
\* and its k-th item (k from 0). The iterator counts its items down and
\* never compares an overflowed sum with `stop`.
StepByCount(start, stop, step) ==
    IF start < stop THEN ((stop - start) + (step - 1)) \div step ELSE 0

\* Mutant of StepByNth: every item is yielded twice.
StepByNth_each_twice(start, step, k) == start + (k \div 2) * step

StepByNth(start, step, k) == start + k * step

StepByIndices(start, stop, step) ==
    {StepByNth(start, step, k) : k \in 0 .. (StepByCount(start, stop, step) - 1)}

\* Mutants of set_multiples_args: the range starts at 2n; the range starts at 0.
set_multiples_args_from_2n(n, len) == [start |-> 2 * n, stop |-> len, step |-> n]

set_multiples_args_from_0(n, len) == [start |-> 0, stop |-> len, step |-> n]

\* set_multiples_to_false(n) and set_multiples_to_false_par(n): the range they pass on.
set_multiples_args(n, len) == [start |-> n, stop |-> len, step |-> n]

\* The array a run of set_step_range_to_false leaves, in a build where the
\* addition wraps (step >= 1, or start >= stop).
RECURSIVE set_step_range_to_false_run(_, _, _, _)
set_step_range_to_false_run(v, i, stop, step) ==
    IF i < stop
    THEN set_step_range_to_false_run(set_false_unchecked(v, i), AddUsize(i, step), stop, step)
    ELSE v

\* Mutant of into_inner_value: it returns a Vec of the same length, all true.
into_inner_value_all_true(v) == [i \in 1 .. Len(v) |-> TRUE]

\* into_inner(self): self.vec, moved out.
into_inner_value(v) == v

\* The constructors: new() and the derived Default hold an empty Vec, From
\* holds the Vec it is given, as it is.
SieveVecBool_new == <<>>

SieveVecBool_default == <<>>

SieveVecBool_from(v) == v

-----------------------------------------------------------------------------
(* Helpers of the model *)

Indices(v) == 0 .. (Len(v) - 1)

At(v, i) == v[i + 1]

AllTrue(L) == [i \in 1 .. L |-> TRUE]

\* v with every index of S set to false.
MarkAll(v, S) == [i \in 1 .. Len(v) |-> v[i] /\ (i - 1) \notin S]

NoOp == [name |-> "none", start |-> 0, stop |-> 0, step |-> 0, slice |-> <<>>]

MkOp(name, start, stop, step, slice) ==
    [name |-> name, start |-> start, stop |-> stop, step |-> step, slice |-> slice]

SeqNames == {"set_step_range_to_false", "set_multiples_to_false"}
ParNames == {"set_step_range_to_false_par", "set_multiples_to_false_par"}
SliceName == "set_multiples_of_slice_to_false_par"

\* The Safety section of the strided functions: every element of
\* (start..stop).step_by(step_size) is a valid index. With step_size = 0 the
\* sequential loop only ever touches `start`.
ValidRange(v, start, stop, step) ==
    IF step = 0
    THEN start >= stop \/ start < Len(v)
    ELSE StepByIndices(start, stop, step) \subseteq Indices(v)

Running(t) == {k \in DOMAIN t : t[k].st = "run"}

\* The names a caller of ThreadSafeMutPtr holds handles under: `ptr` and `p`
\* as in the closure of set_step_range_to_false_par, and a copy of `ptr`
\* (the type is Copy).
HandleNames == {"ptr", "copy", "p"}

NoHop == [name |-> "none", h |-> "ptr", amount |-> 0, value |-> FALSE]

MkHop(name, h, amount, value) ==
    [name |-> name, h |-> h, amount |-> amount, value |-> value]

\* The addresses of the slots of the buffer mem.
BufAddrs(mem) == {BufBase + i : i \in Indices(mem)}

\* The record of a store to index i kept for the call.
Stored(i) ==
    /\ written' = written \cup {i}
    /\ twice' = IF i \in written THEN twice \cup {i} ELSE twice

-----------------------------------------------------------------------------
(* Construction: From<Vec<bool>> of vec![true; L], as a sieve starts; every *)
(* other content of the array is reached by marking.                       *)

TypeOK ==
    /\ vec \in Seq(BOOLEAN)
    /\ pc \in {"idle", "running", "returned", "panicked", "crashed", "consumed"}
    /\ threads \in 0 .. MaxThreads

InitWith(v) ==
    /\ vec = v
    /\ vec0 = v
    /\ threads = 0
    /\ pc = "idle"
    /\ op = NoOp
    /\ pre = v
    /\ index = 0
    /\ cursor = 0
    /\ inflight = {}
    /\ tasks = <<>>
    /\ written = {}
    /\ twice = {}
    /\ marked = {}
    /\ again = FALSE
    /\ out = <<>>
    /\ hnd = [h \in HandleNames |-> ptr_to_start_of_vec]
    /\ hop = NoHop
    /\ got = None

Init == \E L \in 0 .. MaxLen : InitWith(SieveVecBool_from(AllTrue(L)))

-----------------------------------------------------------------------------
(* Calls *)

\* The caller: with the array idle it makes any call; right after a call
\* has returned it repeats that call, or moves on (CallerMovesOn).
Begin(newop) ==
    /\ pc = "idle" \/ (pc = "returned" /\ newop = op)
    /\ op' = newop
    /\ pre' = vec
    /\ again' = (pc = "returned")
    /\ UNCHANGED <<vec0, out, hvars>>

CallerMovesOn ==
    /\ pc = "returned"
    /\ pc' = "idle"
    /\ op' = NoOp
    /\ pre' = vec
    /\ again' = FALSE
    /\ threads' = 0
    /\ written' = {} /\ twice' = {}
    /\ index' = 0 /\ cursor' = 0 /\ inflight' = {} /\ tasks' = <<>>
    /\ UNCHANGED <<vec, vec0, marked, out, hvars>>

\* set_false_unchecked(index)
SetFalseUnchecked(i) ==
    /\ Begin(MkOp("set_false_unchecked", i, 0, 0, <<>>))
    /\ i < Len(vec)
    /\ vec' = set_false_unchecked(vec, i)
    /\ written' = {i} /\ twice' = {}
    /\ marked' = marked \cup {i}
    /\ pc' = "returned"
    /\ threads' = 0
    /\ index' = 0 /\ cursor' = 0 /\ inflight' = {} /\ tasks' = <<>>

\* The entry of set_step_range_to_false(start, stop, step_size): `let mut index = start`.
EnterSeq(name, start, stop, step) ==
    /\ Begin(MkOp(name, start, stop, step, <<>>))
    /\ ValidRange(vec, start, stop, step)
    /\ index' = start
    /\ pc' = "running"
    /\ written' = {} /\ twice' = {}
    /\ threads' = 0
    /\ cursor' = 0 /\ inflight' = {} /\ tasks' = <<>>
    /\ UNCHANGED <<vec, marked>>

CallStepRange(start, stop, step) ==
    EnterSeq("set_step_range_to_false", start, stop, step)

\* set_multiples_to_false(n): set_step_range_to_false(n, self.vec.len(), n)
CallMultiples(n) ==
    LET a == set_multiples_args(n, Len(vec))
    IN  EnterSeq("set_multiples_to_false", a.start, a.stop, a.step)

\* One test of `while index < stop`, and the iteration it lets in.
SeqLoop ==
    /\ pc = "running"
    /\ op.name \in SeqNames
    /\ IF index < op.stop
       THEN \E s \in StoreOutcomes(vec, index) :
              /\ Stored(index)
              /\ IF s = "fault"
                 THEN pc' = "crashed" /\ index' = index /\ UNCHANGED <<vec, marked>>
                 ELSE /\ IF s = "stray"
                         THEN UNCHANGED <<vec, marked>>
                         ELSE /\ vec' = set_false_unchecked(vec, index)
                              /\ marked' = marked \cup {index}
                      /\ \E o \in AddOutcomes(index, op.step) :
                           IF o = "panic"
                           THEN pc' = "panicked" /\ index' = index
                           ELSE pc' = pc /\ index' = AddUsize(index, op.step)
       ELSE /\ pc' = "returned"
            /\ index' = 0
            /\ UNCHANGED <<vec, written, twice, marked>>
    /\ UNCHANGED <<vec0, threads, op, pre, cursor, inflight, tasks, again, out, hvars>>

\* The entry of set_step_range_to_false_par: step_by panics on a step of 0.
EnterPar(name, start, stop, step) ==
    /\ Begin(MkOp(name, start, stop, step, <<>>))
    /\ step = 0 \/ ValidRange(vec, start, stop, step)
    /\ pc' = IF step = 0 THEN "panicked" ELSE "running"
    /\ threads' \in 1 .. MaxThreads
    /\ written' = {} /\ twice' = {}
    /\ index' = 0 /\ cursor' = 0 /\ inflight' = {} /\ tasks' = <<>>
    /\ UNCHANGED <<vec, marked>>

CallStepRangePar(start, stop, step) ==
    EnterPar("set_step_range_to_false_par", start, stop, step)

\* set_multiples_to_false_par(n): set_step_range_to_false_par(n, self.vec.len(), n)
CallMultiplesPar(n) ==
    LET a == set_multiples_args(n, Len(vec))
    IN  EnterPar("set_multiples_to_false_par", a.start, a.stop, a.step)

\* par_bridge: a free worker takes the iterator's next item.
ParTake ==
    /\ pc = "running"
    /\ op.name \in ParNames
    /\ cursor < StepByCount(op.start, op.stop, op.step)
    /\ Cardinality(inflight) < threads
    /\ inflight' = inflight \cup {StepByNth(op.start, op.step, cursor)}
    /\ cursor' = cursor + 1
    /\ UNCHANGED <<vec, vec0, threads, pc, op, pre, index, tasks, written, twice, marked,
                   again, out, hvars>>

\* A worker runs the closure on the item it took.
ParWrite ==
    /\ pc = "running"
    /\ op.name \in ParNames
    /\ \E i \in inflight :
         /\ vec' = par_closure(vec, i)
         /\ Stored(i)
         /\ marked' = marked \cup {i}
         /\ inflight' = inflight \ {i}
    /\ UNCHANGED <<vec0, threads, pc, op, pre, index, cursor, tasks, again, out, hvars>>

\* Mutant of par_bridge_done: for_each returns as soon as the iterator is drained.
par_bridge_done_drained(count, cur, fly) == cur = count

\* for_each returns once the iterator is drained and every closure has run.
par_bridge_done(count, cur, fly) == cur = count /\ fly = {}

ParJoin ==
    /\ pc = "running"
    /\ op.name \in ParNames
    /\ par_bridge_done(StepByCount(op.start, op.stop, op.step), cursor, inflight)
    /\ pc' = "returned"
    /\ UNCHANGED <<vec, vec0, threads, op, pre, index, cursor, inflight, tasks, written,
                   twice, marked, again, out, hvars>>

\* set_multiples_of_slice_to_false_par(slice): one task per item of the slice.
CallSlice(slice) ==
    /\ Begin(MkOp(SliceName, 0, 0, 0, slice))
    /\ tasks' = [k \in 1 .. Len(slice) |-> [st |-> "todo", index |-> 0]]
    /\ pc' = "running"
    /\ threads' \in 1 .. MaxThreads
    /\ written' = {} /\ twice' = {}
    /\ index' = 0 /\ cursor' = 0 /\ inflight' = {}
    /\ UNCHANGED <<vec, marked>>

\* A free worker starts the closure on an item: set_multiples_to_false(item)
\* enters set_step_range_to_false(item, self.vec.len(), item).
TaskStart ==
    /\ pc = "running"
    /\ op.name = SliceName
    /\ Cardinality(Running(tasks)) < threads
    /\ \E k \in DOMAIN tasks :
         /\ tasks[k].st = "todo"
         /\ tasks' = [tasks EXCEPT ![k] =
               [st |-> "run", index |-> set_multiples_args(op.slice[k], Len(vec)).start]]
    /\ UNCHANGED <<vec, vec0, threads, pc, op, pre, index, cursor, inflight, written,
                   twice, marked, again, out, hvars>>

\* One test of `while index < stop` in a task, and the iteration it lets in.
TaskLoop ==
    /\ pc = "running"
    /\ op.name = SliceName
    /\ \E k \in DOMAIN tasks :
         LET a == set_multiples_args(op.slice[k], Len(vec))
             i == tasks[k].index
         IN  /\ tasks[k].st = "run"
             /\ IF i < a.stop
                THEN /\ vec' = set_false_unchecked(vec, i)
                     /\ Stored(i)
                     /\ marked' = marked \cup {i}
                     /\ \E o \in AddOutcomes(i, a.step) :
                          tasks' = [tasks EXCEPT ![k] =
                              IF o = "panic"
                              THEN [st |-> "panicked", index |-> i]
                              ELSE [st |-> "run", index |-> AddUsize(i, a.step)]]
                ELSE /\ tasks' = [tasks EXCEPT ![k] = [st |-> "done", index |-> 0]]
                     /\ UNCHANGED <<vec, written, twice, marked>>
    /\ UNCHANGED <<vec0, threads, pc, op, pre, index, cursor, inflight, again, out, hvars>>

\* Mutant of into_par_iter_done: for_each returns without waiting for the tasks.
into_par_iter_done_no_wait(t) == TRUE

\* for_each returns once every task has ended; a panic of a task is passed on.
into_par_iter_done(t) == \A k \in DOMAIN t : t[k].st \in {"done", "panicked"}

SliceJoin ==
    /\ pc = "running"
    /\ op.name = SliceName
    /\ into_par_iter_done(tasks)
    /\ pc' = IF \E k \in DOMAIN tasks : tasks[k].st = "panicked"
             THEN "panicked" ELSE "returned"
    /\ UNCHANGED <<vec, vec0, threads, op, pre, index, cursor, inflight, tasks, written,
                   twice, marked, again, out, hvars>>

\* into_inner(self): the array is moved out; nothing can be called afterwards.
IntoInner ==
    /\ pc = "idle"
    /\ out' = into_inner_value(vec)
    /\ pc' = "consumed"
    /\ UNCHANGED <<vec, vec0, threads, op, pre, index, cursor, inflight, tasks, written,
                   twice, marked, again, hvars>>

Next ==
    \/ \E i \in StartVals : SetFalseUnchecked(i)
    \/ \E start \in StartVals, stop \in StopVals, step \in StepVals : CallStepRange(start, stop, step)
    \/ \E n \in NVals : CallMultiples(n)
    \/ SeqLoop
    \/ \E start \in StartVals, stop \in StopVals, step \in StepVals : CallStepRangePar(start, stop, step)
    \/ \E n \in NVals : CallMultiplesPar(n)
    \/ ParTake
    \/ ParWrite
    \/ ParJoin
    \/ \E slice \in Slices : CallSlice(slice)
    \/ TaskStart
    \/ TaskLoop
    \/ SliceJoin
    \/ CallerMovesOn
    \/ IntoInner

Spec == Init /\ [][Next]_vars

-----------------------------------------------------------------------------
(* Every construction: new(), Default, and From of a Vec<bool> of any      *)
(* content.                                                                *)

InitAny ==
    \/ InitWith(SieveVecBool_new)
    \/ InitWith(SieveVecBool_default)
    \/ \E v \in SeqsUpTo(BOOLEAN, MaxLen) : InitWith(SieveVecBool_from(v))

\* Marking one index, the sequential forms and the parallel multiples, then
\* into_inner.
NextAny ==
    \/ \E i \in StartVals : SetFalseUnchecked(i)
    \/ \E start \in StartVals, stop \in StopVals, step \in StepVals : CallStepRange(start, stop, step)
    \/ \E n \in NVals : CallMultiples(n)
    \/ SeqLoop
    \/ \E n \in NVals : CallMultiplesPar(n)
    \/ ParTake
    \/ ParWrite
    \/ ParJoin
    \/ CallerMovesOn
    \/ IntoInner

SpecAny == InitAny /\ [][NextAny]_vars

-----------------------------------------------------------------------------
(* A caller of ThreadSafeMutPtr<bool> alone: a buffer of bools (vec), and  *)
(* handles that are null or point at a slot of it. The caller keeps the    *)
(* Safety sections: add stays within the buffer, write goes through a      *)
(* handle that points at a slot.                                           *)

SieveVars == <<vec0, threads, pc, op, pre, index, cursor, inflight, tasks, written,
               twice, marked, again, out>>

\* let ptr = ThreadSafeMutPtr::new(addr)
PtrNew(addr) ==
    /\ hnd' = [hnd EXCEPT !["ptr"] = ThreadSafeMutPtr_new(addr)]
    /\ hop' = MkHop("new", "ptr", 0, FALSE)
    /\ UNCHANGED <<vec, got, SieveVars>>

\* let ptr = ThreadSafeMutPtr::from_mut_ref(&mut buffer[i])
PtrFromMutRef(i) ==
    /\ i \in Indices(vec)
    /\ hnd' = [hnd EXCEPT !["ptr"] = ThreadSafeMutPtr_from_mut_ref(BufBase + i)]
    /\ hop' = MkHop("from_mut_ref", "ptr", 0, FALSE)
    /\ UNCHANGED <<vec, got, SieveVars>>

\* let copy = ptr
PtrCopy ==
    /\ hnd' = [hnd EXCEPT !["copy"] = hnd["ptr"]]
    /\ hop' = MkHop("copy", "ptr", 0, FALSE)
    /\ UNCHANGED <<vec, got, SieveVars>>

\* let p = h.add(amount)
PtrAdd(h, amount) ==
    /\ h # "p"
    /\ hnd[h].ptr \in BufAddrs(vec)
    /\ hnd[h].ptr + amount \in BufAddrs(vec)
    /\ hnd' = [hnd EXCEPT !["p"] = ThreadSafeMutPtr_add(hnd[h], amount)]
    /\ hop' = MkHop("add", h, amount, FALSE)
    /\ UNCHANGED <<vec, got, SieveVars>>

\* h.write(new_value)
PtrWrite(h, new_value) ==
    /\ hnd[h].ptr \in BufAddrs(vec)
    /\ vec' = ThreadSafeMutPtr_write(vec, hnd[h], new_value)
    /\ hop' = MkHop("write", h, 0, new_value)
    /\ UNCHANGED <<hnd, got, SieveVars>>

\* h.into_mut_ref()
PtrIntoMutRef(h) ==
    /\ hnd[h].ptr \in {NullAddr} \cup BufAddrs(vec)
    /\ got' = ThreadSafeMutPtr_into_mut_ref(hnd[h])
    /\ hop' = MkHop("into_mut_ref", h, 0, FALSE)
    /\ UNCHANGED <<vec, hnd, SieveVars>>

InitPtr == \E v \in SeqsUpTo(BOOLEAN, MaxLen) : InitWith(v)

NextPtr ==
    \/ \E addr \in {NullAddr} \cup BufAddrs(vec) : PtrNew(addr)
    \/ \E i \in 0 .. (MaxLen - 1) : PtrFromMutRef(i)
    \/ PtrCopy
    \/ \E h \in HandleNames, amount \in 0 .. MaxLen : PtrAdd(h, amount)
    \/ \E h \in HandleNames, new_value \in BOOLEAN : PtrWrite(h, new_value)
    \/ \E h \in HandleNames : PtrIntoMutRef(h)

SpecPtr == InitPtr /\ [][NextPtr]_vars

-----------------------------------------------------------------------------
(* Scheduling. The thread that called a sequential form runs its loop; a   *)
(* worker of the pool that is free takes work that is there, and a worker  *)
(* that holds work runs it; for_each returns once its work is done.        *)

Fairness ==
    /\ WF_vars(SeqLoop)
    /\ WF_vars(ParTake)
    /\ WF_vars(ParWrite)
    /\ WF_vars(ParJoin)
    /\ WF_vars(TaskStart)
    /\ WF_vars(TaskLoop)
    /\ WF_vars(SliceJoin)

FairSpec == Spec /\ Fairness

\* Arrays of no slot and of one slot, constructed in any way.
InitSmall ==
    \/ InitWith(SieveVecBool_new)
    \/ InitWith(SieveVecBool_default)
    \/ \E v \in {<<>>, <<TRUE>>, <<FALSE>>} : InitWith(SieveVecBool_from(v))

SpecSmall == InitSmall /\ [][Next]_vars /\ Fairness

-----------------------------------------------------------------------------
(* The batch call alone, on arrays that are all true: those of the main    *)
(* specification, and the array of 30 slots sieved with 2, 3 and 5.        *)

InitBatch == \E L \in (0 .. MaxLen) \cup {30} : InitWith(AllTrue(L))

BatchSlices(L) == IF L = 30 THEN {<<2, 3, 5>>} ELSE Slices

NextBatch ==
    \/ \E slice \in BatchSlices(Len(vec)) : CallSlice(slice)
    \/ TaskStart
    \/ TaskLoop
    \/ SliceJoin
    \/ CallerMovesOn

SpecBatch == InitBatch /\ [][NextBatch]_vars

-----------------------------------------------------------------------------
(* What the claims speak of *)

Returned(names) == pc = "returned" /\ op.name \in names

\* The indices start, start + step, start + 2*step, ... below stop.
TargetIndices(start, stop, step) ==
    IF step = 0
    THEN (IF start < stop THEN {start} ELSE {})
    ELSE {i \in start .. (stop - 1) : (i - start) % step = 0}

FalseIndices(v) == {i \in Indices(v) : ~At(v, i)}

\* The array set_multiples_to_false(n) leaves when it runs alone on v.
set_multiples_to_false_run(v, n) ==
    LET a == set_multiples_args(n, Len(v))
    IN  set_step_range_to_false_run(v, a.start, a.stop, a.step)

\* The array left by set_multiples_to_false(s[1]), then (s[2]), ... run one after another.
RECURSIVE RunOneAfterAnother(_, _)
RunOneAfterAnother(v, s) ==
    IF s = <<>> THEN v
    ELSE RunOneAfterAnother(set_multiples_to_false_run(v, Head(s)), Tail(s))

\* Every value of the slice meets the precondition n >= 1.
SliceMeetsPrecondition(s) == \A k \in DOMAIN s : s[k] >= 1

MarkingNames == SeqNames \cup ParNames \cup {SliceName}

\* The call in progress (or the last call) is a strided, a multiples or a
\* batch call whose arguments meet its precondition: a stride (n, value of
\* the list) of at least 1; that the generated indices are valid is a guard
\* of every call of the model.
MeetsPrecondition ==
    \/ op.name \in SeqNames \cup ParNames /\ op.step >= 1
    \/ op.name = SliceName /\ SliceMeetsPrecondition(op.slice)

-----------------------------------------------------------------------------
(* C1: monotonicity. No step of any operation, in any interleaving, turns  *)
(* a slot that holds false back to true (nor changes the number of slots): *)
(* a slot that has once held false holds false ever after.                 *)
C1_Monotonic ==
    [][/\ Len(vec') = Len(vec)
       /\ \A i \in Indices(vec) : ~At(vec, i) => ~At(vec', i)]_vars

\* A running call has stored to a slot that was false before the call.
C1_Witness ==
    /\ pc = "running"
    /\ \E i \in written : ~At(pre, i)

(* C2: batch correctness. When set_multiples_of_slice_to_false_par returns *)
(* on an array that was all true, with values >= 1, slot i is false        *)
(* exactly when 0 < i < L and i is a multiple of some value of the slice;  *)
(* for L = 30 and [2, 3, 5] the false slots are exactly those listed.      *)
C2_BatchCorrect ==
    (/\ Returned({SliceName})
     /\ pre = AllTrue(Len(pre))
     /\ SliceMeetsPrecondition(op.slice))
    => /\ \A i \in Indices(vec) :
            ~At(vec, i) <=> (i > 0 /\ \E k \in DOMAIN op.slice : i % op.slice[k] = 0)
       /\ (Len(vec) = 30 /\ op.slice = <<2, 3, 5>>)
            => /\ FalseIndices(vec) = {2, 3, 4, 5, 6, 8, 9, 10, 12, 14, 15, 16, 18,
                                       20, 21, 22, 24, 25, 26, 27, 28}
               /\ Indices(vec) \ FalseIndices(vec) = {0, 1, 7, 11, 13, 17, 19, 23, 29}

\* The call on 30 true slots with [2, 3, 5] has returned.
C2_Witness ==
    /\ Returned({SliceName})
    /\ pre = AllTrue(30)
    /\ op.slice = <<2, 3, 5>>
    /\ threads = MaxThreads

(* C3: equivalence of the sequential and the parallel forms. For every     *)
(* (start, stop, step) with step >= 1 whose generated indices are valid,   *)
(* set_step_range_to_false and set_step_range_to_false_par leave the same  *)
(* array when started from the same array, and so do                       *)
(* set_multiples_to_false(n) and set_multiples_to_false_par(n), for every  *)
(* number of worker threads. Both are compared with the array that has     *)
(* exactly the items of (start..stop).step_by(step) set to false, which is *)
(* what the parallel form leaves (ParLeavesStepBy).                        *)
C3_SeqParEquivalent ==
    (Returned(SeqNames \cup ParNames) /\ op.step >= 1)
    => vec = MarkAll(pre, StepByIndices(op.start, op.stop, op.step))

\* The parallel half alone: it holds.
ParLeavesStepBy ==
    Returned(ParNames) => vec = MarkAll(pre, StepByIndices(op.start, op.stop, op.step))

(* C4: scheduling independence. When set_multiples_of_slice_to_false_par   *)
(* returns, the array is the one that running set_multiples_to_false for   *)
(* the slice's values one after another leaves, in every order of the      *)
(* values; so it is the same for every interleaving of the tasks' stores.  *)
C4_ScheduleIndependent ==
    (Returned({SliceName}) /\ (SliceMeetsPrecondition(op.slice) \/ Len(pre) = 0))
    => /\ vec = RunOneAfterAnother(pre, op.slice)
       /\ \A p \in Permutations(DOMAIN op.slice) :
            vec = RunOneAfterAnother(pre, [k \in DOMAIN op.slice |-> op.slice[p[k]]])

\* A batch call served by several threads has returned, two of its values
\* having a target index in common.
C4_Witness ==
    /\ Returned({SliceName})
    /\ threads >= 2
    /\ \E k1 \in DOMAIN op.slice, k2 \in DOMAIN op.slice :
         /\ k1 # k2
         /\ op.slice[k1] >= 1 /\ op.slice[k2] >= 1
         /\ TargetIndices(op.slice[k1], Len(vec), op.slice[k1])
              \cap TargetIndices(op.slice[k2], Len(vec), op.slice[k2]) # {}

(* C5: completion is a synchronisation point. In the state in which a      *)
(* parallel call has returned, no item of its iterator is left, no worker  *)
(* holds an item it has not written, every task has ended, and every index *)
(* the call generates is false.                                            *)
C5_JoinIsSyncPoint ==
    /\ Returned(ParNames) =>
         /\ cursor = StepByCount(op.start, op.stop, op.step)
         /\ inflight = {}
         /\ \A i \in TargetIndices(op.start, op.stop, op.step) : ~At(vec, i)
    /\ Returned({SliceName}) =>
         /\ \A k \in DOMAIN tasks : tasks[k].st = "done"
         /\ \A k \in DOMAIN op.slice :
              \A i \in TargetIndices(op.slice[k], Len(vec), op.slice[k]) : ~At(vec, i)

\* A parallel strided call has returned after its workers wrote several slots.
C5_Witness ==
    /\ Returned(ParNames)
    /\ threads >= 2
    /\ Cardinality(written) >= 2

(* C6: idempotence. A marking call that repeats the call before it leaves  *)
(* the array as that call left it; and every marking call, whether or not  *)
(* an earlier call has already marked some of its indices, leaves the      *)
(* array it found with exactly the indices it stored to set to false.      *)
C6_Idempotent ==
    Returned(SeqNames \cup ParNames \cup {SliceName}) =>
        /\ again => vec = pre
        /\ vec = MarkAll(pre, written)

\* A strided call that repeats the call before it has returned, having stored again.
C6_Witness ==
    /\ Returned({"set_step_range_to_false", "set_step_range_to_false_par"})
    /\ again
    /\ written # {}

\* A strided call has returned that shares an index with an earlier marking.
SharedIndexReached ==
    /\ Returned({"set_step_range_to_false", "set_step_range_to_false_par"})
    /\ ~again
    /\ \E i \in written : ~At(pre, i)

(* C7: set_multiples_to_false(n), n >= 1, on an array of L slots has the   *)
(* effect of set_step_range_to_false(n, L, n): it sets to false exactly    *)
(* the indices n, 2n, 3n, ... below L and leaves index 0 and every index   *)
(* that is no multiple of n as it was, whatever the array held.            *)
C7_MultiplesExact ==
    (Returned({"set_multiples_to_false"}) /\ op.step >= 1)
    => /\ op.start = op.step /\ op.stop = Len(pre)
       /\ \A i \in Indices(vec) :
            At(vec, i) = (At(pre, i) /\ ~(i >= 1 /\ i % op.step = 0))
       /\ vec = set_step_range_to_false_run(pre, op.step, Len(pre), op.step)
       /\ written = {i \in Indices(vec) : i >= 1 /\ i % op.step = 0}

\* set_multiples_to_false(n) has returned on an array that already held a
\* false slot it does not target, after marking a slot.
C7_Witness ==
    /\ Returned({"set_multiples_to_false"})
    /\ op.step >= 1
    /\ written # {}
    /\ \E i \in Indices(pre) : ~At(pre, i) /\ i \notin written

(* C8: set_step_range_to_false(start, stop, step) sets to false every      *)
(* index start, start + step, start + 2*step, ... strictly below stop and  *)
(* changes no other slot; with start >= stop it changes nothing.           *)
C8_StepRangeExact ==
    Returned({"set_step_range_to_false"})
    => /\ vec = MarkAll(pre, TargetIndices(op.start, op.stop, op.step))
       /\ op.start >= op.stop => vec = pre

(* C9: boundary. set_multiples_to_false(n) and set_multiples_to_false_par(n)*)
(* with n = L or n > L generate no index and leave the array unchanged, at *)
(* every point of the call.                                                *)
C9_BoundaryNoOp ==
    (/\ op.name \in {"set_multiples_to_false", "set_multiples_to_false_par"}
     /\ op.step >= Len(vec))
    => /\ vec = pre
       /\ written = {}
       /\ inflight = {}
       /\ cursor = 0

\* Both forms have returned with n = L and with n > L on an array that has a true slot.
C9_Witness ==
    /\ Returned({"set_multiples_to_false", "set_multiples_to_false_par"})
    /\ op.step >= Len(vec)
    /\ op.step >= 1
    /\ \E i \in Indices(vec) : At(vec, i)

(* C10: fixed length. In every reachable state the array has the length of *)
(* the sequence it was constructed from, whatever marking has run or is    *)
(* running, and into_inner returns a sequence of that length.              *)
C10_FixedLength ==
    /\ Len(vec) = Len(vec0)
    /\ Len(pre) = Len(vec0)
    /\ pc = "consumed" => Len(out) = Len(vec0)

\* into_inner has returned an array of several slots, some of them marked.
C10_Witness ==
    /\ pc = "consumed"
    /\ Len(out) >= 2
    /\ \E i \in Indices(out) : ~At(out, i)

(* C11: slots are true at construction. In an array made by new(), by     *)
(* Default or by From<Vec<bool>>, every slot that no marking operation has *)
(* stored to since the construction holds true.                            *)
C11_TrueUntilMarked ==
    \A i \in Indices(vec) : i \notin marked => At(vec, i)

\* What the constructors do give: a slot not stored to holds what the Vec
\* handed to the constructor held. It holds.
UnmarkedAsConstructed ==
    \A i \in Indices(vec) : i \notin marked => At(vec, i) = At(vec0, i)

(* C12: arrays of length 0 and 1. On such an array every strided,         *)
(* multiples or batch call whose arguments meet its precondition neither   *)
(* panics nor faults, stores to no index outside [0, length), leaves the   *)
(* array unchanged if it is a multiples or a batch call, and returns.      *)
C12_SmallArrays ==
    /\ []((Len(vec) <= 1 /\ MeetsPrecondition)
          => /\ pc \notin {"panicked", "crashed"}
             /\ written \subseteq Indices(vec)
             /\ inflight \subseteq Indices(vec)
             /\ \A k \in DOMAIN tasks : tasks[k].st # "panicked"
             /\ op.name \notin {"set_step_range_to_false", "set_step_range_to_false_par"}
                  => vec = pre /\ written = {})
    /\ (Len(vec) <= 1 /\ MeetsPrecondition /\ pc = "running") ~> (pc = "returned")

\* On an array of one true slot a batch call with a non-empty list has
\* returned, and so has a strided call that marked the slot.
C12_Witness ==
    /\ Len(vec) = 1
    /\ \/ Returned({SliceName}) /\ op.slice # <<>> /\ MeetsPrecondition /\ At(vec, 0)
       \/ Returned({"set_step_range_to_false_par"}) /\ MeetsPrecondition /\ written = {0}

(* C13: construct/extract round trip. The sequence into_inner returns is  *)
(* the array as the marking operations left it: the sequence the array was *)
(* constructed from with false in exactly the slots stored to since. So    *)
(* with no slot stored to it is that sequence unchanged, and every slot    *)
(* stored to reads false in it.                                            *)
C13_RoundTrip ==
    pc = "consumed" =>
        /\ out = vec
        /\ out = MarkAll(vec0, marked)
        /\ marked = {} => out = vec0
        /\ \A i \in marked : ~At(out, i)

\* into_inner has returned an array constructed with a false slot that was
\* never stored to, after a slot that was constructed true was marked.
C13_Witness ==
    /\ pc = "consumed"
    /\ \E i \in Indices(vec0) : ~At(vec0, i) /\ i \notin marked
    /\ \E i \in marked : At(vec0, i)
    /\ \E i \in Indices(out) : At(out, i)

\* into_inner has returned right after From of a Vec that holds true and false.
ExtractedAtOnce ==
    /\ pc = "consumed"
    /\ marked = {}
    /\ \E i \in Indices(out), j \in Indices(out) : At(out, i) /\ ~At(out, j)

NonNullAccessed ==
    /\ hop.name = "into_mut_ref"
    /\ hnd[hop.h].ptr > BufBase
    /\ got.some

(* C17: handle operations. h.add(n) gives a handle whose address is that  *)
(* of h plus n elements and changes neither h, nor any other handle, nor   *)
(* the buffer. h.write(value) stores value in the slot at h's address and  *)
(* changes no other slot and no handle; so a write through a handle that   *)
(* add(i) made from the handle at the buffer's start changes slot i only.  *)
C17_HandleOps ==
    [][/\ hop'.name = "add" =>
            /\ hnd'["p"].ptr = hnd[hop'.h].ptr + hop'.amount
            /\ \A k \in HandleNames \ {"p"} : hnd'[k] = hnd[k]
            /\ vec' = vec
       /\ hop'.name = "write" =>
            LET i == hnd[hop'.h].ptr - BufBase
            IN  /\ Len(vec') = Len(vec)
                /\ At(vec', i) = hop'.value
                /\ \A j \in Indices(vec) \ {i} : At(vec', j) = At(vec, j)
                /\ hnd' = hnd
                /\ (hop'.h = "p" /\ hop.name = "add" /\ hnd[hop.h] = ptr_to_start_of_vec)
                     => i = hop.amount]_vars

\* A write through p = ptr.add(i), i >= 1, ptr at the buffer's start, has
\* just changed slot i, a true slot next to it staying as it was.
C17_Witness ==
    /\ hop.name = "write"
    /\ hop.h = "p"
    /\ hnd["ptr"] = ptr_to_start_of_vec
    /\ hnd["copy"] = hnd["ptr"]
    /\ hnd["p"].ptr > hnd["ptr"].ptr
    /\ At(vec, hnd["p"].ptr - BufBase) = hop.value
    /\ ~hop.value
    /\ At(vec, (hnd["p"].ptr - BufBase) - 1)

(* C16: no write-write contention inside one parallel strided call. At    *)
(* every point of set_step_range_to_false_par(start, stop, step) with      *)
(* step >= 1, and so of set_multiples_to_false_par(n) with n >= 1, the     *)
(* items handed to the workers so far are pairwise distinct indices: no    *)
(* index has been stored to twice, and no worker holds an index that has   *)
(* been stored to or that another worker holds.                            *)
C16_NoContention ==
    (op.name \in ParNames /\ op.step >= 1 /\ pc \in {"running", "returned"})
    => /\ twice = {}
       /\ inflight \cap written = {}
       /\ Cardinality(inflight \cup written) = cursor

\* Two workers of a parallel strided call hold an item each while a third
\* item has been written.
C16_Witness ==
    /\ op.name \in ParNames
    /\ pc = "running"
    /\ Cardinality(inflight) >= 2
    /\ written # {}

\* By contrast the tasks of one batch call do store to a common index.
BatchStoresTwice ==
    /\ op.name = SliceName
    /\ SliceMeetsPrecondition(op.slice)
    /\ twice # {}

(* C18: no index wrap-around in the sequential strided loop. In every     *)
(* call set_step_range_to_false(start, stop, step), step >= 1, whose       *)
(* generated indices are valid, the running index never falls back below   *)
(* start by wrapping modulo 2^USIZE_BITS, and the loop stores to no index  *)
(* outside {start + k*step : start + k*step < stop}.                       *)
C18_NoWrapAround ==
    (op.name = "set_step_range_to_false" /\ op.step >= 1)
    => /\ pc = "running" => index >= op.start
       /\ written \subseteq TargetIndices(op.start, op.stop, op.step)

(* C15: runs to completion. Under fair scheduling every parallel call with *)
(* a stride (n, values) of at least 1 that is running eventually returns,  *)
(* and the loop of every sequential call with a stride of at least 1 that  *)
(* is running eventually ends.                                             *)
C15_RunsToCompletion ==
    /\ (pc = "running" /\ MeetsPrecondition /\ op.name \in ParNames \cup {SliceName})
         ~> (pc = "returned")
    /\ (pc = "running" /\ MeetsPrecondition /\ op.name \in SeqNames)
         ~> (pc # "running")

\* The parallel half alone: it holds.
ParRunsToCompletion ==
    (pc = "running" /\ MeetsPrecondition /\ op.name \in ParNames \cup {SliceName})
        ~> (pc = "returned")

\* The loop of a sequential call with a stride of at least 1 is back at an
\* index it has already stored to: from here it repeats itself.
SeqLoopRepeatsItself ==
    /\ pc = "running"
    /\ op.name \in SeqNames
    /\ op.step >= 1
    /\ index < op.stop
    /\ index \in twice

(* C19: zero stride. set_step_range_to_false(start, stop, 0) with         *)
(* start < stop never returns: its index stays at start and it stores to   *)
(* no other index. So set_multiples_to_false(0) on an array that has a     *)
(* slot never returns, and a batch call on such an array whose list holds  *)
(* a 0 never joins, the task of the 0 never ending. On an array of no slot *)
(* set_multiples_to_false(0) stores to nothing and returns.                *)
C19_ZeroStride ==
    /\ []((op.name \in SeqNames /\ op.step = 0 /\ op.start < op.stop)
           => /\ pc = "running"
              /\ index = op.start
              /\ written \subseteq {op.start})
    /\ []((op.name = SliceName /\ Len(vec) > 0 /\ \E k \in DOMAIN op.slice : op.slice[k] = 0)
           => /\ pc = "running"
              /\ \A k \in DOMAIN op.slice :
                   op.slice[k] = 0 => tasks[k].st \in {"todo", "run"} /\ tasks[k].index = 0)
    /\ []((op.name = "set_multiples_to_false" /\ op.step = 0 /\ Len(vec) = 0)
           => pc \in {"running", "returned"} /\ written = {})
    /\ (op.name = "set_multiples_to_false" /\ op.step = 0 /\ Len(vec) = 0 /\ pc = "running")
         ~> (pc = "returned")

\* set_multiples_to_false(0) on an array of several slots is storing to
\* slot 0 over and over.
C19_Witness ==
    /\ op.name = "set_multiples_to_false"
    /\ op.step = 0
    /\ Len(vec) >= 2
    /\ pc = "running"
    /\ twice = {0}

\* A batch call whose list holds a 0 is left with the task of the 0 alone.
BatchStuckOnZero ==
    /\ op.name = SliceName
    /\ Len(vec) > 0
    /\ Len(op.slice) >= 2
    /\ \E k \in DOMAIN op.slice :
         /\ op.slice[k] = 0 /\ tasks[k].st = "run" /\ 0 \in twice
         /\ \A j \in DOMAIN op.slice \ {k} : tasks[j].st = "done"

\* set_multiples_to_false(0) has returned on the empty array.
ZeroOnEmptyReturned ==
    /\ Returned({"set_multiples_to_false"})
    /\ op.step = 0
    /\ Len(vec) = 0

====
